---- MODULE Spec2Model ----
(***************************************************************************)
(* Model of deployment_check.py: a Streamlit script that is re-executed    *)
(* top to bottom on every user interaction.  One script run uploads the    *)
(* CSV files into the SQLite store (when a store path is given), loads     *)
(* the deployment and ride tables, attributes each eligible deployment to  *)
(* the buffered zones that contain it, matches it with its first ride and  *)
(* renders the selected page.                                              *)
(*                                                                         *)
(* Abstractions.  Timestamps are whole hours since an epoch.  Geometry is  *)
(* one-dimensional: a point is a coordinate in metres, a zone polygon an   *)
(* interval.  A pandas missing value (NaN / None) is NULL, a missing       *)
(* timestamp is NaT.  An uploaded CSV has at least one row: the empty      *)
(* sequence stands for "nothing uploaded".  A table is the sequence of     *)
(* its rows; only the columns the script reads are kept.                   *)
(***************************************************************************)
EXTENDS Integers, Sequences, FiniteSets, TLC

VARIABLES
    dep_file,         \* uploaded deployments CSV (rows), <<>> if none
    rides_file,       \* uploaded rides CSV (rows), <<>> if none
    geo_file,         \* uploaded zones GeoJSON (features), <<>> if none
    db_path,          \* "" (no store), "dir" (an existing directory), "file"
    page,             \* selected view
    db_deployments,   \* SQLite table deployments, in rowid order
    db_rides,         \* SQLite table rides, in rowid order
    ins_deployments,  \* history: every row handed to INSERT OR IGNORE, in order
    ins_rides,        \* history: every ride row handed to INSERT OR IGNORE
    sessions,         \* number of script runs so far
    deps_with_zone,   \* eligible deployments joined with their zones
    first_rides,      \* one row per deployment that has a qualifying ride
    result,           \* first_rides renamed, with the elapsed hours
    no_ride,          \* rows of the no-ride map
    kpi,              \* the three dashboard metrics
    start_date,       \* dashboard date pickers
    end_date,
    deps_filtered,
    result_filtered,
    spot_df,          \* per-zone statistics table
    out,              \* elements emitted by this run, in order
    pc                \* "start": widgets set, script not run yet;  "done"

vars == <<dep_file, rides_file, geo_file, db_path, page, db_deployments,
          db_rides, ins_deployments, ins_rides, sessions, deps_with_zone,
          first_rides, result, no_ride, kpi, start_date, end_date,
          deps_filtered, result_filtered, spot_df, out, pc>>

-----------------------------------------------------------------------------
(* Values *)

NULL == "<NA>"
NaT == -1
HoursPerDay == 24
SecondsPerHour == 3600
BufferMeters == 50

Dashboard == "Dashboard"
TimeToFirstRide == "Time to First Ride"
NoRideMap == "Deployments with No Ride Map"

\* Timestamp.dt.date
DateOf(t) == t \div HoursPerDay

Min(S) == CHOOSE x \in S : \A y \in S : x <= y
Max(S) == CHOOSE x \in S : \A y \in S : x >= y

RECURSIVE Concat(_)
Concat(ss) == IF ss = <<>> THEN <<>> ELSE Head(ss) \o Concat(Tail(ss))

RECURSIVE SumHours(_)
SumHours(rows) ==
    IF rows = <<>> THEN 0 ELSE Head(rows).Hours + SumHours(Tail(rows))

\* Series.mean(): kept as the exact (sum, count) pair; count 0 is NaN
Mean(rows) == [sum |-> SumHours(rows), n |-> Len(rows)]

-----------------------------------------------------------------------------
(* Record store *)

\* astype(str) of an object column: a missing value becomes the text "nan"
AsTypeStr(v) == IF v = NULL THEN "nan" ELSE v

\* astype(str) of a datetime64 column: "YYYY-MM-DD HH:MM:SS"
TimeToStr(t) == [date |-> t \div HoursPerDay, hour |-> t % HoursPerDay]

\* mutant of ParseTime: the time of day is dropped
ParseDateOnly(s) == s.date * HoursPerDay

\* read_sql(..., parse_dates=["Created Time"])
ParseTime(s) == s.date * HoursPerDay + s.hour

\* df_dep.astype({...}, errors='ignore'): one row as handed to INSERT
AsTypeDep(r) ==
    [ID           |-> AsTypeStr(r.ID),
     Uuid         |-> AsTypeStr(r.Uuid),
     Created_Date |-> r.Created_Date,
     Created_Time |-> TimeToStr(r.Created_Time),
     Action_Type  |-> AsTypeStr(r.Action_Type),
     Action_State |-> AsTypeStr(r.Action_State),
     Charger_Lng  |-> r.Charger_Lng]

AsTypeRide(r) ==
    [ID           |-> AsTypeStr(r.ID),
     Uuid         |-> AsTypeStr(r.Uuid),
     Created_Time |-> TimeToStr(r.Created_Time),
     Vehicle_Type |-> AsTypeStr(r.Vehicle_Type)]

AsTypeDeps(df) == [i \in 1..Len(df) |-> AsTypeDep(df[i])]
AsTypeRides(df) == [i \in 1..Len(df) |-> AsTypeRide(df[i])]

HasKey(table, id) == \E i \in 1..Len(table) : table[i].ID = id

\* mutant of InsertOrIgnore: INSERT OR REPLACE
InsertOrReplace(table, row) ==
    IF HasKey(table, row.ID)
    THEN SelectSeq(table, LAMBDA r : r.ID # row.ID) \o <<row>>
    ELSE Append(table, row)

\* INSERT OR IGNORE of one row: skipped when the primary key is present
InsertOrIgnore(table, row) ==
    IF HasKey(table, row.ID) THEN table ELSE Append(table, row)

\* executemany: the rows in order
RECURSIVE ExecuteMany(_, _)
ExecuteMany(table, rows) ==
    IF rows = <<>> THEN table
    ELSE ExecuteMany(InsertOrIgnore(table, Head(rows)), Tail(rows))

ReadSqlDeps(table) ==
    [i \in 1..Len(table) |->
        [table[i] EXCEPT !.Created_Time = ParseTime(table[i].Created_Time)]]

ReadSqlRides(table) ==
    [i \in 1..Len(table) |->
        [table[i] EXCEPT !.Created_Time = ParseTime(table[i].Created_Time)]]

-----------------------------------------------------------------------------
(* Spatial zone attribution *)

\* query("`Action Type` == 'deploy' and `Action State` == 'completed'")
Eligible(r) == r.Action_Type = "deploy" /\ r.Action_State = "completed"

\* query + reset_index: the eligible rows, each with its row index
RECURSIVE QueryDeps(_, _)
QueryDeps(df, i) ==
    IF i > Len(df) THEN <<>>
    ELSE (IF Eligible(df[i])
          THEN << [deploy_idx   |-> i,
                   Uuid         |-> df[i].Uuid,
                   Created_Date |-> df[i].Created_Date,
                   Created_Time |-> df[i].Created_Time,
                   Charger_Lng  |-> df[i].Charger_Lng] >>
          ELSE <<>>) \o QueryDeps(df, i + 1)

\* zones.geometry.buffer(50)
Buffer(z) == [name |-> z.name, lo |-> z.lo - BufferMeters, hi |-> z.hi + BufferMeters]

BufferZones(gf) == [i \in 1..Len(gf) |-> Buffer(gf[i])]

\* predicate="within": the point lies in the interior of the polygon
Within(x, z) == z.lo < x /\ x < z.hi

WithName(d, nm) ==
    [deploy_idx   |-> d.deploy_idx,
     Uuid         |-> d.Uuid,
     Created_Date |-> d.Created_Date,
     Created_Time |-> d.Created_Time,
     Charger_Lng  |-> d.Charger_Lng,
     name         |-> nm]

\* the rows a left spatial join produces for one deployment: one per zone
\* that contains it, or one with no zone
SjoinRow(d, zones) ==
    LET hits == SelectSeq(zones, LAMBDA z : Within(d.Charger_Lng, z))
    IN  IF hits = <<>> THEN << WithName(d, NULL) >>
        ELSE [k \in 1..Len(hits) |-> WithName(d, hits[k].name)]

\* gpd.sjoin(deps_gdf, zones, how="left", predicate="within")
Sjoin(deps, zones) == Concat([i \in 1..Len(deps) |-> SjoinRow(deps[i], zones)])

DepsWithZone(df, gf) == Sjoin(QueryDeps(df, 1), BufferZones(gf))

-----------------------------------------------------------------------------
(* First-ride matcher *)

\* pandas merge key comparison: equal values match, and a missing key
\* matches a missing key
MergeKeyEq(a, b) == a = b

WithRide(l, rt, vt) ==
    [deploy_idx   |-> l.deploy_idx,
     Uuid         |-> l.Uuid,
     Created_Date |-> l.Created_Date,
     Created_Time |-> l.Created_Time,
     name         |-> l.name,
     ride_time    |-> rt,
     Vehicle_Type |-> vt]

MergeRow(l, rides) ==
    LET hits == SelectSeq(rides, LAMBDA r : MergeKeyEq(l.Uuid, r.Uuid))
    IN  IF hits = <<>> THEN << WithRide(l, NaT, NULL) >>
        ELSE [k \in 1..Len(hits) |->
                 WithRide(l, hits[k].Created_Time, hits[k].Vehicle_Type)]

\* deps_with_zone.merge(rides[...], on="Uuid", how="left")
Merge(dwz, rides) == Concat([i \in 1..Len(dwz) |-> MergeRow(dwz[i], rides)])

\* mutant of Causal: rides before the deployment are kept
CausalUnfiltered(m) == m.ride_time # NaT

\* merged["ride_time"] >= merged["Created Time"]: false on a missing time
Causal(m) == m.ride_time # NaT /\ m.ride_time >= m.Created_Time

Merged(dwz, rides) == SelectSeq(Merge(dwz, rides), Causal)

GroupOf(merged, idx) ==
    {merged[i] : i \in {j \in 1..Len(merged) : merged[j].deploy_idx = idx}}

\* GroupBy.first() of one column after sort_values("ride_time"): the value
\* of the first row of the group whose value is not missing.  The sort is
\* not stable, so rows of equal ride_time come in any order.
FirstValid(g, col) ==
    LET valid == {m \in g : m[col] # NULL}
    IN  IF valid = {} THEN {NULL}
        ELSE LET t == Min({m.ride_time : m \in valid})
             IN  {m[col] : m \in {v \in valid : v.ride_time = t}}

\* mutant of FirstRideTime: the last ride instead of the first
LastRideTime(g) == Max({m.ride_time : m \in g})

FirstRideTime(g) == Min({m.ride_time : m \in g})

\* the rows GroupBy.first() can produce for one deployment
GroupFirst(g) ==
    LET any == CHOOSE m \in g : TRUE
    IN  {[deploy_idx         |-> any.deploy_idx,
          Uuid               |-> any.Uuid,
          Created_Date       |-> any.Created_Date,
          Created_Time       |-> any.Created_Time,
          name               |-> nm,
          ride_time          |-> FirstRideTime(g),
          Vehicle_Type       |-> vt,
          time_to_first_ride |-> FirstRideTime(g) - any.Created_Time] :
            nm \in FirstValid(g, "name"),
            vt \in FirstValid(g, "Vehicle_Type")}

RECURSIVE GroupTables(_, _, _)
GroupTables(merged, idx, last) ==
    IF idx > last THEN { <<>> }
    ELSE IF GroupOf(merged, idx) = {} THEN GroupTables(merged, idx + 1, last)
    ELSE {<<h>> \o t : h \in GroupFirst(GroupOf(merged, idx)),
                       t \in GroupTables(merged, idx + 1, last)}

\* merged.sort_values("ride_time").groupby("deploy_idx").first(): the
\* tables it can produce, rows in deploy_idx order
FirstRides(merged) ==
    IF merged = <<>> THEN { <<>> }
    ELSE GroupTables(merged, 1, Max({merged[i].deploy_idx : i \in 1..Len(merged)}))

\* deploy_idx is kept to tell which deployment a row is about; it is not a
\* displayed column
ResultRow(f) ==
    [deploy_idx      |-> f.deploy_idx,
     Uuid            |-> f.Uuid,
     Deployment_Date |-> f.Created_Date,
     Deployment_Time |-> f.Created_Time,
     First_Ride_Time |-> f.ride_time,
     Deployment_Spot |-> f.name,
     Vehicle_Model   |-> f.Vehicle_Type,
     Time_to_First_Ride |-> f.time_to_first_ride,
     Hours |-> (f.time_to_first_ride * SecondsPerHour) \div SecondsPerHour]

Result(fr) == [i \in 1..Len(fr) |-> ResultRow(fr[i])]

-----------------------------------------------------------------------------
(* Page rendering *)

\* mutant of InRange: the start date itself is excluded
InRangeOpen(t, sd, ed) == DateOf(t) > sd /\ DateOf(t) <= ed

\* (x.dt.date >= start_date) & (x.dt.date <= end_date)
InRange(t, sd, ed) == DateOf(t) >= sd /\ DateOf(t) <= ed

\* deps_with_zone filtered on the date of "Created Time"
DepsFiltered(dwz, sd, ed) ==
    SelectSeq(dwz, LAMBDA d : InRange(d.Created_Time, sd, ed))

\* result filtered on the date of "Deployment Time"
ResultFiltered(res, sd, ed) ==
    SelectSeq(res, LAMBDA r : InRange(r.Deployment_Time, sd, ed))

\* groupby("Deployment Spot") keys: missing names form no group
SpotKeys(rf) ==
    {rf[i].Deployment_Spot : i \in 1..Len(rf)} \ {NULL}

\* mutant of SpotAvg: the mean over every zone's records
SpotAvgAll(rf, z) == Mean(rf)

\* result_filtered.groupby("Deployment Spot")["Time to First Ride Hours"].mean()
SpotAvg(rf, z) == Mean(SelectSeq(rf, LAMBDA r : r.Deployment_Spot = z))

\* deps_filtered.groupby("name").size()
SpotCount(df, z) == Len(SelectSeq(df, LAMBDA d : d.name = z))

\* spot_avg.merge(spot_count, on="Deployment Spot", how="left")
SpotRows(rf, df) ==
    {[Deployment_Spot   |-> z,
      AvgTime           |-> SpotAvg(rf, z),
      Total_Deployments |-> SpotCount(df, z)] : z \in SpotKeys(rf)}

\* a.AvgTime >= b.AvgTime on exact means
MeanGeq(a, b) == a.sum * b.n >= b.sum * a.n

\* sort_values("AvgTime", ascending=False): the orders it can produce
SpotTables(rows) ==
    LET n == Cardinality(rows)
    IN  {s \in [1..n -> rows] :
            /\ \A i, j \in 1..n : i # j => s[i] # s[j]
            /\ \A i, j \in 1..n : i < j => MeanGeq(s[i].AvgTime, s[j].AvgTime)}

NoKpi == [total_deps |-> 0, no_ride_count |-> 0, avg_ttf_hours |-> Mean(<<>>)]

\* nothing of the dashboard is computed
NoDashboard ==
    /\ kpi' = NoKpi
    /\ start_date' = 0
    /\ end_date' = 0
    /\ deps_filtered' = <<>>
    /\ result_filtered' = <<>>
    /\ spot_df' = <<>>

\* no table is computed
NoTables ==
    /\ deps_with_zone' = <<>>
    /\ first_rides' = <<>>
    /\ result' = <<>>
    /\ no_ride' = <<>>

\* page "Time to First Ride"
RenderTimeToFirstRide ==
    /\ no_ride' = <<>>
    /\ NoDashboard
    /\ out' = <<"title", "dataframe", "download_button">>
    /\ pc' = "done"

\* deps_with_zone[~deps_with_zone["deploy_idx"].isin(ridden_idxs)]
NoRide(dwz, fr) ==
    SelectSeq(dwz, LAMBDA d : \A i \in 1..Len(fr) : fr[i].deploy_idx # d.deploy_idx)

\* page "Deployments with No Ride Map"
RenderNoRideMap(dwz, fr) ==
    /\ no_ride' = NoRide(dwz, fr)
    /\ NoDashboard
    /\ out' = <<"title", "pydeck_chart">>
    /\ pc' = "done"

KpiOut == <<"header", "metric Total Deployments", "metric Deployments with No Ride",
            "metric Avg Time to First Ride (h)", "date_input Start date",
            "date_input End date">>

ChartsOut == <<"hist_chart", "model_chart", "spot_chart", "spot_table", "download_button">>

Kpi(dwz, res) ==
    [total_deps    |-> Len(dwz),
     no_ride_count |-> Len(dwz) - Len(res),
     avg_ttf_hours |-> Mean(res)]

\* mutant of InvalidRange: the date order is not checked
InvalidRangeNever(sd, ed) == FALSE

\* if start_date > end_date: st.error(...); st.stop()
InvalidRange(sd, ed) == sd > ed

\* page "Dashboard": the metrics over the full dataset, the two date
\* pickers, the date-order check, then the charts over the filtered data
RenderDashboard(dwz, res) ==
    LET dates    == {DateOf(dwz[i].Created_Time) : i \in 1..Len(dwz)}
        min_date == Min(dates)
        max_date == Max(dates)
    IN  /\ no_ride' = <<>>
        /\ kpi' = Kpi(dwz, res)
        /\ \E sd, ed \in min_date..max_date :
              /\ start_date' = sd
              /\ end_date' = ed
              /\ IF InvalidRange(sd, ed)
                 THEN /\ deps_filtered' = <<>>
                      /\ result_filtered' = <<>>
                      /\ spot_df' = <<>>
                      /\ out' = KpiOut \o <<"error">>
                      /\ pc' = "stopped"
                 ELSE /\ deps_filtered' = DepsFiltered(dwz, sd, ed)
                      /\ result_filtered' = ResultFiltered(res, sd, ed)
                      /\ spot_df' \in SpotTables(SpotRows(ResultFiltered(res, sd, ed),
                                                          DepsFiltered(dwz, sd, ed)))
                      /\ out' = KpiOut \o ChartsOut
                      /\ pc' = "done"

Render(pg, dwz, fr) ==
    CASE pg = TimeToFirstRide -> RenderTimeToFirstRide
      [] pg = NoRideMap       -> RenderNoRideMap(dwz, fr)
      [] pg = Dashboard       -> RenderDashboard(dwz, Result(fr))

\* zone attribution, first-ride matching and the page, over loaded tables.
\* With no eligible deployment deps.apply(..., axis=1) returns a DataFrame
\* and the assignment of the geometry column raises.
Analyse(deps, rides) ==
    IF QueryDeps(deps, 1) = <<>>
    THEN /\ NoTables
         /\ NoDashboard
         /\ out' = <<"exception">>
         /\ pc' = "crashed"
    ELSE LET dwz == DepsWithZone(deps, geo_file)
         IN  /\ deps_with_zone' = dwz
             /\ \E fr \in FirstRides(Merged(dwz, rides)) :
                   /\ first_rides' = fr
                   /\ result' = Result(fr)
                   /\ Render(page, dwz, fr)

-----------------------------------------------------------------------------
(* Script runs *)

Halt(msg) ==
    /\ NoTables
    /\ NoDashboard
    /\ out' = <<msg>>
    /\ pc' = "stopped"

\* db_path names a directory: error and stop
RunBadPath ==
    /\ pc = "start"
    /\ db_path = "dir"
    /\ Halt("error")
    /\ UNCHANGED <<dep_file, rides_file, geo_file, db_path, page, db_deployments,
                   db_rides, ins_deployments, ins_rides, sessions>>

\* no GeoJSON, or no store path and not both CSV files: info and stop
RunMissingInput ==
    /\ pc = "start"
    /\ db_path # "dir"
    /\ \/ geo_file = <<>>
       \/ db_path = "" /\ (dep_file = <<>> \/ rides_file = <<>>)
    /\ Halt("info")
    /\ UNCHANGED <<dep_file, rides_file, geo_file, db_path, page, db_deployments,
                   db_rides, ins_deployments, ins_rides, sessions>>

\* a store path is given: upload into the store, load it, analyse
RunStoreBacked ==
    /\ pc = "start"
    /\ db_path = "file"
    /\ geo_file # <<>>
    /\ LET df_dep  == AsTypeDeps(dep_file)
           df_ride == AsTypeRides(rides_file)
       IN  /\ db_deployments' = ExecuteMany(db_deployments, df_dep)
           /\ db_rides' = ExecuteMany(db_rides, df_ride)
           /\ ins_deployments' = ins_deployments \o df_dep
           /\ ins_rides' = ins_rides \o df_ride
           /\ Analyse(ReadSqlDeps(ExecuteMany(db_deployments, df_dep)),
                      ReadSqlRides(ExecuteMany(db_rides, df_ride)))
    /\ UNCHANGED <<dep_file, rides_file, geo_file, db_path, page, sessions>>

\* no store path, both CSV files: analyse the uploads
RunInMemory ==
    /\ pc = "start"
    /\ db_path = ""
    /\ geo_file # <<>>
    /\ dep_file # <<>>
    /\ rides_file # <<>>
    /\ Analyse(dep_file, rides_file)
    /\ UNCHANGED <<dep_file, rides_file, geo_file, db_path, page, db_deployments,
                   db_rides, ins_deployments, ins_rides, sessions>>

Next == RunBadPath \/ RunMissingInput \/ RunStoreBacked \/ RunInMemory

-----------------------------------------------------------------------------
(* Inputs *)

MaxDeps == 1      \* matching runs: rows of the deployments CSV
MaxRides == 2     \* matching and dashboard runs: rows of the rides CSV
MaxTime == 1      \* matching runs: timestamps are the hours 0..MaxTime
MaxDashDeps == 2  \* dashboard runs: rows of the deployments CSV
MaxUpload == 2    \* store sessions: rows of an uploaded CSV
MaxSessions == 2  \* store sessions: successive uploads into one store

\* two zones 80 m apart: buffered by 50 m they overlap between 130 and 150
ZoneFile == << [name |-> "Park A", lo |-> 0,   hi |-> 100],
               [name |-> "Park B", lo |-> 180, hi |-> 300] >>

\* deployment points: inside Park A only; between the polygons, inside
\* both buffers; far from every zone
InA == ZoneFile[1].hi \div 2
InBoth == ZoneFile[2].lo - BufferMeters + 10
Outside == ZoneFile[2].hi + 4 * BufferMeters

Dep(u, t, d, x, ty, st) ==
    [Uuid |-> u, Created_Time |-> t, Created_Date |-> d, Charger_Lng |-> x,
     Action_Type |-> ty, Action_State |-> st]

Ride(u, t, v) == [Uuid |-> u, Created_Time |-> t, Vehicle_Type |-> v]

DepWithId(r, id) ==
    [ID |-> id, Uuid |-> r.Uuid, Created_Date |-> r.Created_Date,
     Created_Time |-> r.Created_Time, Action_Type |-> r.Action_Type,
     Action_State |-> r.Action_State, Charger_Lng |-> r.Charger_Lng]

RideWithId(r, id) ==
    [ID |-> id, Uuid |-> r.Uuid, Created_Time |-> r.Created_Time,
     Vehicle_Type |-> r.Vehicle_Type]

\* a CSV of the rows f[1..k], the row at position i with ID "i"
DepCsv(f, k) == [i \in 1..k |-> DepWithId(f[i], ToString(i))]

RideCsv(f, k) == [i \in 1..k |-> RideWithId(f[i], ToString(i))]

\* the state when a script run starts
Start(df, rf, gf, dbp, pg, dbd, dbr) ==
    /\ dep_file = df
    /\ rides_file = rf
    /\ geo_file = gf
    /\ db_path = dbp
    /\ page = pg
    /\ db_deployments = dbd
    /\ db_rides = dbr
    /\ ins_deployments = dbd
    /\ ins_rides = dbr
    /\ sessions = 1
    /\ deps_with_zone = <<>>
    /\ first_rides = <<>>
    /\ result = <<>>
    /\ no_ride = <<>>
    /\ kpi = NoKpi
    /\ start_date = 0
    /\ end_date = 0
    /\ deps_filtered = <<>>
    /\ result_filtered = <<>>
    /\ spot_df = <<>>
    /\ out = <<>>
    /\ pc = "start"

(* Matching runs: one script run on the page "Time to First Ride", in
   memory, on an empty store, or on a store an earlier session filled. *)

MatchDepRows ==
    {Dep("u1", t, DateOf(t), x, "deploy", "completed") :
        t \in 0..MaxTime, x \in {InBoth, Outside}}
    \cup {Dep(NULL, t, DateOf(t), Outside, "deploy", "completed") : t \in 0..MaxTime}
    \cup {Dep("u1", 0, 0, InBoth, "deploy", "failed")}

MatchRideRows ==
    {Ride("u1", t, v) : t \in 0..MaxTime, v \in {"scooter", NULL}}
    \cup {Ride(NULL, 0, "scooter")}

\* what an earlier session left in the store
PriorDeployments ==
    ExecuteMany(<<>>, AsTypeDeps(<< DepWithId(Dep("u1", 0, 0, InA, "deploy", "completed"),
                                               "0") >>))

PriorRides ==
    ExecuteMany(<<>>, AsTypeRides(<< RideWithId(Ride("u1", 1, "bike"), "0") >>))

\* the store a run starts on: none, an empty one, an earlier session's
MatchStores ==
    {[db_path |-> "",     db_deployments |-> <<>>, db_rides |-> <<>>],
     [db_path |-> "file", db_deployments |-> <<>>, db_rides |-> <<>>],
     [db_path |-> "file", db_deployments |-> PriorDeployments, db_rides |-> PriorRides]}

Init ==
    \/ \E kd \in 0..MaxDeps, kr \in 0..MaxRides, st \in MatchStores :
         \E f \in [1..kd -> MatchDepRows], g \in [1..kr -> MatchRideRows] :
            Start(DepCsv(f, kd), RideCsv(g, kr), ZoneFile, st.db_path,
                  TimeToFirstRide, st.db_deployments, st.db_rides)
    \/ Start(<<>>, <<>>, <<>>, "file", TimeToFirstRide, <<>>, <<>>)
    \/ Start(<<>>, <<>>, ZoneFile, "dir", TimeToFirstRide, <<>>, <<>>)

Spec == Init /\ [][Next]_vars

(* Dashboard runs: one script run on the page "Dashboard" or on the
   no-ride map, in memory or on an empty store.  A deployment lies in the
   last hour of day 0 or in the first hour of day 1; its "Created Date"
   column is whatever the CSV says. *)

DashTimes == {HoursPerDay - 1, HoursPerDay}

DashDates == {DateOf(t) : t \in DashTimes}

DashDepRows ==
    {Dep("u1", t, d, x, "deploy", "completed") :
        t \in DashTimes, d \in DashDates, x \in {InA, InBoth, Outside}}
    \cup {Dep("u1", HoursPerDay, 1, InA, "pickup", "completed")}

DashRideRows == {Ride("u1", t, "scooter") : t \in DashTimes}

InitDash ==
    \/ \E kd \in 0..MaxDashDeps, kr \in 0..MaxRides, dbp \in {"", "file"},
          pg \in {Dashboard, NoRideMap} :
         \E f \in [1..kd -> DashDepRows], g \in [1..kr -> DashRideRows] :
            Start(DepCsv(f, kd), RideCsv(g, kr), ZoneFile, dbp, pg, <<>>, <<>>)
    \/ Start(<<>>, <<>>, <<>>, "file", Dashboard, <<>>, <<>>)
    \/ Start(<<>>, <<>>, ZoneFile, "dir", Dashboard, <<>>, <<>>)

SpecDash == InitDash /\ [][Next]_vars

(* Store sessions: successive script runs that upload into one store.  The
   uploaded rows carry their own ID, which may repeat within a file and
   across files, and may be missing. *)

StoreDepRows ==
    {DepWithId(Dep("u1", 0, 0, InA, "deploy", "completed"), "1"),
     DepWithId(Dep(NULL, 0, 0, InA, "deploy", "completed"), "1"),
     DepWithId(Dep("u1", 0, 0, InA, "deploy", "completed"), NULL)}

StoreRideRows ==
    {RideWithId(Ride("u1", 0, "scooter"), "1"),
     RideWithId(Ride("u1", 1, "scooter"), "1")}

InitStore ==
    /\ dep_file = <<>>
    /\ rides_file = <<>>
    /\ geo_file = ZoneFile
    /\ db_path = "file"
    /\ page = TimeToFirstRide
    /\ db_deployments = <<>>
    /\ db_rides = <<>>
    /\ ins_deployments = <<>>
    /\ ins_rides = <<>>
    /\ sessions = 0
    /\ deps_with_zone = <<>>
    /\ first_rides = <<>>
    /\ result = <<>>
    /\ no_ride = <<>>
    /\ kpi = NoKpi
    /\ start_date = 0
    /\ end_date = 0
    /\ deps_filtered = <<>>
    /\ result_filtered = <<>>
    /\ spot_df = <<>>
    /\ out = <<>>
    /\ pc = "idle"

\* the user replaces the uploaded files (a deployments CSV, a rides CSV, or
\* one row of each), which triggers the next script run
Interact ==
    /\ pc # "start"
    /\ sessions < MaxSessions
    /\ \/ \E k \in 1..MaxUpload : \E f \in [1..k -> StoreDepRows] :
             dep_file' = f /\ rides_file' = <<>>
       \/ \E k \in 1..MaxUpload : \E g \in [1..k -> StoreRideRows] :
             dep_file' = <<>> /\ rides_file' = g
       \/ \E f \in [1..1 -> StoreDepRows], g \in [1..1 -> StoreRideRows] :
             dep_file' = f /\ rides_file' = g
    /\ sessions' = sessions + 1
    /\ pc' = "start"
    /\ UNCHANGED <<geo_file, db_path, page, db_deployments, db_rides,
                   ins_deployments, ins_rides, deps_with_zone, first_rides,
                   result, no_ride, kpi, start_date, end_date, deps_filtered,
                   result_filtered, spot_df, out>>

NextStore == Interact \/ RunStoreBacked

SpecStore == InitStore /\ [][NextStore]_vars

-----------------------------------------------------------------------------
(* What a finished run worked on *)

Analysed == pc = "done"

\* the deployment and ride tables of the run: the uploads, or the store
RunDeps == IF db_path = "file" THEN ReadSqlDeps(db_deployments) ELSE dep_file
RunRides == IF db_path = "file" THEN ReadSqlRides(db_rides) ELSE rides_file

\* a missing value, as uploaded or as the store-backed pass stored it
Missing(v) == v = NULL \/ v = "nan"

\* the times of the rides that share d's Uuid and are not before d
Qualifying(d, rides) ==
    {rides[j].Created_Time :
        j \in {n \in 1..Len(rides) :
                  /\ rides[n].Uuid = d.Uuid
                  /\ rides[n].Created_Time >= d.Created_Time}}

RecordsOf(i) == {k \in 1..Len(result) : result[k].deploy_idx = i}

ZonesOf(i) ==
    {deps_with_zone[k].name :
        k \in {n \in 1..Len(deps_with_zone) : deps_with_zone[n].deploy_idx = i}}

-----------------------------------------------------------------------------
(* C2  First-match minimality *)

\* C2: every eligible deployment with a (non-missing) Uuid that has a ride
\* of the same Uuid at or after its time has exactly one result record, and
\* the record's first-ride time is the minimum of those rides' times; in
\* the in-memory and in the store-backed pass, whatever the order of rides.
C2_FirstMatchMinimal ==
    Analysed =>
        \A i \in 1..Len(RunDeps) :
            (/\ Eligible(RunDeps[i])
             /\ ~Missing(RunDeps[i].Uuid)
             /\ Qualifying(RunDeps[i], RunRides) # {})
            => /\ Cardinality(RecordsOf(i)) = 1
               /\ \A k \in RecordsOf(i) :
                     result[k].First_Ride_Time = Min(Qualifying(RunDeps[i], RunRides))

\* a deployment with two qualifying rides, the later one first in the file
C2_Witness ==
    /\ Analysed
    /\ Len(rides_file) = 2
    /\ \E i \in 1..Len(RunDeps) :
          /\ Eligible(RunDeps[i])
          /\ ~Missing(RunDeps[i].Uuid)
          /\ rides_file[1].Uuid = RunDeps[i].Uuid
          /\ rides_file[2].Uuid = RunDeps[i].Uuid
          /\ rides_file[2].Created_Time >= RunDeps[i].Created_Time
          /\ rides_file[1].Created_Time > rides_file[2].Created_Time
          /\ RecordsOf(i) # {}

-----------------------------------------------------------------------------
(* C3  Causality *)

\* C3: every result record has first-ride time >= deployment time and an
\* elapsed duration equal to their difference, never negative; its
\* first-ride time is the time of a ride that is not before the deployment;
\* and a deployment with a ride of its Uuid at exactly its own time is
\* matched with elapsed duration 0.
C3_Causality ==
    Analysed =>
        /\ \A k \in 1..Len(result) :
              /\ result[k].First_Ride_Time >= result[k].Deployment_Time
              /\ result[k].Time_to_First_Ride =
                    result[k].First_Ride_Time - result[k].Deployment_Time
              /\ result[k].Time_to_First_Ride >= 0
              /\ result[k].Hours >= 0
              /\ result[k].Hours * SecondsPerHour =
                    result[k].Time_to_First_Ride * SecondsPerHour
              /\ result[k].Deployment_Time = RunDeps[result[k].deploy_idx].Created_Time
              /\ \E j \in 1..Len(RunRides) :
                    RunRides[j].Created_Time = result[k].First_Ride_Time
        /\ \A i \in 1..Len(RunDeps) :
              (/\ Eligible(RunDeps[i])
               /\ ~Missing(RunDeps[i].Uuid)
               /\ RunDeps[i].Created_Time \in Qualifying(RunDeps[i], RunRides))
              => /\ RecordsOf(i) # {}
                 /\ \A k \in RecordsOf(i) : result[k].Time_to_First_Ride = 0

\* a deployment matched with the ride at its own time (elapsed 0) although
\* a ride of its Uuid lies before it
C3_Witness ==
    /\ Analysed
    /\ \E k \in 1..Len(result) :
          /\ result[k].Time_to_First_Ride = 0
          /\ ~Missing(result[k].Uuid)
          /\ \E j \in 1..Len(RunRides) :
                /\ RunRides[j].Uuid = result[k].Uuid
                /\ RunRides[j].Created_Time < result[k].Deployment_Time

-----------------------------------------------------------------------------
(* C5  Missing identity keys *)

\* C5: a deployment whose Uuid is missing is never matched: it has no
\* result record (it is in the no-ride set), in both passes.
C5_NullUuidNeverMatched ==
    Analysed =>
        \A i \in 1..Len(RunDeps) :
            (Eligible(RunDeps[i]) /\ Missing(RunDeps[i].Uuid)) => RecordsOf(i) = {}

-----------------------------------------------------------------------------
(* C9  Record coherence *)

\* C9: every result record (of a deployment with a Uuid) is one
\* (deployment, ride) pair: some ride of the deployment's Uuid has the
\* reported first-ride time and the reported vehicle model, and the
\* reported zone is one assigned to the deployment (none when it is
\* unassigned).
C9_RecordIsOnePair ==
    Analysed =>
        \A k \in 1..Len(result) :
            ~Missing(result[k].Uuid) =>
            /\ \E j \in 1..Len(RunRides) :
                  /\ RunRides[j].Uuid = result[k].Uuid
                  /\ RunRides[j].Created_Time = result[k].First_Ride_Time
                  /\ RunRides[j].Vehicle_Type = result[k].Vehicle_Model
            /\ result[k].Deployment_Spot \in ZonesOf(result[k].deploy_idx)

-----------------------------------------------------------------------------
(* C10  The two passes *)

\* the tables the store-backed pass loads after uploading into an empty store
StoredDeps(df) == ReadSqlDeps(ExecuteMany(<<>>, AsTypeDeps(df)))
StoredRides(rf) == ReadSqlRides(ExecuteMany(<<>>, AsTypeRides(rf)))

DistinctIds(f) ==
    /\ \A i \in 1..Len(f) : f[i].ID # NULL
    /\ \A i, j \in 1..Len(f) : i # j => f[i].ID # f[j].ID

\* eligible deployments with their zones: (row, time, zone)
EligibleView(dwz) ==
    {<<dwz[k].deploy_idx, dwz[k].Created_Time, dwz[k].name>> : k \in 1..Len(dwz)}

\* matched records: (row, first-ride time, elapsed duration)
MatchedView(fr) ==
    {<<fr[k].deploy_idx, fr[k].ride_time, fr[k].time_to_first_ride>> : k \in 1..Len(fr)}

NoRideView(dwz, fr) ==
    {dwz[k].deploy_idx : k \in 1..Len(dwz)} \ {fr[k].deploy_idx : k \in 1..Len(fr)}

-----------------------------------------------------------------------------
(* C1  Idempotent upsert *)

Ids(rows) == {rows[n].ID : n \in 1..Len(rows)}

\* the first row handed to INSERT with the key id
FirstInserted(rows, id) ==
    rows[Min({n \in 1..Len(rows) : rows[n].ID = id})]

OneRowPerId(table, inserted) ==
    /\ Ids(table) = Ids(inserted)
    /\ \A id \in Ids(inserted) :
          /\ Cardinality({i \in 1..Len(table) : table[i].ID = id}) = 1
          /\ \A i \in 1..Len(table) :
                table[i].ID = id => table[i] = FirstInserted(inserted, id)

\* C1: after any sequence of uploads, each store table holds exactly one
\* row per distinct ID ever supplied, and that row is the first row
\* inserted with that ID (so a later row with a stored ID neither changes
\* nor removes anything).
C1_IdempotentUpsert ==
    /\ OneRowPerId(db_deployments, ins_deployments)
    /\ OneRowPerId(db_rides, ins_rides)

\* two sessions done; the second upload supplies, for both tables, a row
\* whose ID an earlier session stored but whose values differ from the
\* stored row
C1_Witness ==
    /\ pc = "done"
    /\ sessions = 2
    /\ Len(dep_file) = 1
    /\ Len(rides_file) = 1
    /\ Len(ins_deployments) = 2
    /\ Len(ins_rides) = 2
    /\ \E i \in 1..Len(db_deployments) :
          /\ db_deployments[i].ID = AsTypeStr(dep_file[1].ID)
          /\ db_deployments[i] # AsTypeDep(dep_file[1])
    /\ \E i \in 1..Len(db_rides) :
          /\ db_rides[i].ID = AsTypeStr(rides_file[1].ID)
          /\ db_rides[i] # AsTypeRide(rides_file[1])

-----------------------------------------------------------------------------
(* Dashboard claims *)

\* the dashboard page was reached by this run
DashReached == page = Dashboard /\ deps_with_zone # <<>> /\ pc \in {"done", "stopped"}

\* the dashboard page ran to its end on a valid date range
DashDone == page = Dashboard /\ pc = "done"

EligibleRows == {i \in 1..Len(RunDeps) : Eligible(RunDeps[i])}

HasRide(i) == Qualifying(RunDeps[i], RunRides) # {}

AllDates == {RunDeps[i].Created_Time \div HoursPerDay : i \in EligibleRows}

FullRange == start_date = Min(AllDates) /\ end_date = Max(AllDates)

\* C4 (on the unfiltered full range): the reported total is the number of
\* eligible deployments, the matched count the number of those with a
\* qualifying ride, the reported no-ride count the number of those without
\* one, each deployment counted once.
C4_CompletenessPartition ==
    (DashDone /\ FullRange) =>
        /\ kpi.total_deps = Cardinality(EligibleRows)
        /\ Len(result) = Cardinality({i \in EligibleRows : HasRide(i)})
        /\ kpi.no_ride_count = Cardinality({i \in EligibleRows : ~HasRide(i)})
        /\ kpi.total_deps = Len(result) + kpi.no_ride_count

Metrics == {"metric Total Deployments", "metric Deployments with No Ride",
            "metric Avg Time to First Ride (h)"}

Charts == {"hist_chart", "model_chart", "spot_chart", "spot_table", "download_button"}

Emitted == {out[n] : n \in 1..Len(out)}

\* C6 as stated: a dashboard request with start date after end date shows
\* no KPI, no chart and no table.
C6_NoOutputOnInvalidRange ==
    (DashReached /\ start_date > end_date) => Emitted \cap (Metrics \cup Charts) = {}

\* C6 as amended: a dashboard request with start date after end date is
\* halted by an error, which is the last element shown; no chart and no
\* table is emitted and no filtered table is computed; the three KPIs of
\* the full dataset are emitted before the error.
C6_HaltedAfterKpis ==
    (DashReached /\ start_date > end_date) =>
        /\ pc = "stopped"
        /\ out[Len(out)] = "error"
        /\ Emitted \cap Charts = {}
        /\ deps_filtered = <<>> /\ result_filtered = <<>> /\ spot_df = <<>>
        /\ Metrics \subseteq Emitted
        /\ \A n \in 1..Len(out) : out[n] = "error" => n = Len(out)
        /\ kpi.total_deps = Len(deps_with_zone)
        /\ kpi.no_ride_count = Len(deps_with_zone) - Len(result)

C6_Witness ==
    /\ DashReached
    /\ start_date > end_date
    /\ pc = "stopped"
    /\ result # <<>>

\* C7 as stated, the part about the shown date: on a valid range, the
\* "Deployment Date" of every filtered result record lies in the range.
C7_ShownDateInRange ==
    DashDone =>
        \A k \in 1..Len(result_filtered) :
            /\ result_filtered[k].Deployment_Date >= start_date
            /\ result_filtered[k].Deployment_Date <= end_date

DayInRange(t) ==
    /\ t \div HoursPerDay >= start_date
    /\ t \div HoursPerDay <= end_date

\* the rows of a table that satisfy P, in order, as index set and count
Kept(table, P(_)) == {k \in 1..Len(table) : P(table[k])}

\* C7 as amended: on a valid range, the filtered deployment set and the
\* filtered result set hold exactly the records whose deployment timestamp
\* ("Created Time" / "Deployment Time") is dated within [start, end], the
\* two end dates included, and every filtered result record belongs to a
\* deployment of the filtered deployment set.  (The "Deployment Date" field
\* is a copy of the "Created Date" column, which the filter does not read.)
C7_FilterOnTimestamp ==
    DashDone =>
        /\ start_date <= end_date
        /\ {deps_filtered[k] : k \in 1..Len(deps_filtered)}
              = {deps_with_zone[k] :
                    k \in Kept(deps_with_zone, LAMBDA d : DayInRange(d.Created_Time))}
        /\ Len(deps_filtered)
              = Cardinality(Kept(deps_with_zone, LAMBDA d : DayInRange(d.Created_Time)))
        /\ {result_filtered[k] : k \in 1..Len(result_filtered)}
              = {result[k] :
                    k \in Kept(result, LAMBDA r : DayInRange(r.Deployment_Time))}
        /\ Len(result_filtered)
              = Cardinality(Kept(result, LAMBDA r : DayInRange(r.Deployment_Time)))
        /\ \A k \in 1..Len(result_filtered) :
              \E n \in 1..Len(deps_filtered) :
                 deps_filtered[n].deploy_idx = result_filtered[k].deploy_idx

\* a one-day range that keeps a matched deployment dated exactly on it and
\* drops a deployment of another day, the kept record showing a
\* "Deployment Date" outside the range
C7_Witness ==
    /\ DashDone
    /\ start_date = end_date
    /\ Len(deps_filtered) < Len(deps_with_zone)
    /\ \E k \in 1..Len(result_filtered) :
          /\ result_filtered[k].Deployment_Time \div HoursPerDay = start_date
          /\ result_filtered[k].Deployment_Date # start_date

FilteredZones ==
    {deps_filtered[k].name : k \in 1..Len(deps_filtered)} \ {NULL}

SpotRowsOf(z) == {n \in 1..Len(spot_df) : spot_df[n].Deployment_Spot = z}

\* C8 as stated, the part about which zones appear: every zone with a
\* deployment in the filtered deployment set has a row in the per-zone table.
C8_RowForEveryZone ==
    DashDone => \A z \in FilteredZones : SpotRowsOf(z) # {}

RECURSIVE SumOver(_, _)
SumOver(S, table) ==
    IF S = {} THEN 0
    ELSE LET k == CHOOSE x \in S : TRUE
         IN  table[k].Hours + SumOver(S \ {k}, table)

\* C8 as amended: the per-zone table has exactly one row for every zone
\* that a filtered result record reports, and none for a zone whose
\* filtered deployments are all unmatched; a row's deployment count is the
\* number of filtered deployment rows assigned to the zone, matched or not,
\* and its mean is the mean elapsed hours of the filtered result records
\* of the zone.
C8_PerZoneSummary ==
    DashDone =>
        LET matched(z) == Kept(result_filtered, LAMBDA r : r.Deployment_Spot = z)
            zones == {result_filtered[k].Deployment_Spot :
                         k \in 1..Len(result_filtered)} \ {NULL}
        IN  /\ {spot_df[n].Deployment_Spot : n \in 1..Len(spot_df)} = zones
            /\ Len(spot_df) = Cardinality(zones)
            /\ zones \subseteq FilteredZones
            /\ \A n \in 1..Len(spot_df) :
                  LET z == spot_df[n].Deployment_Spot
                  IN  /\ spot_df[n].Total_Deployments
                            = Cardinality(Kept(deps_filtered, LAMBDA d : d.name = z))
                      /\ spot_df[n].Total_Deployments >= 1
                      /\ spot_df[n].AvgTime.n = Cardinality(matched(z))
                      /\ spot_df[n].AvgTime.sum = SumOver(matched(z), result_filtered)

\* a table of one row whose count includes an unmatched deployment, while
\* another zone with filtered deployments, none of them matched, has no row
C8_Witness ==
    /\ DashDone
    /\ Len(spot_df) = 1
    /\ spot_df[1].Total_Deployments > spot_df[1].AvgTime.n
    /\ \E z \in FilteredZones : SpotRowsOf(z) = {}

====
